---- MODULE Spec2Model ----
(***************************************************************************)
(* Model of process_movie_script (src/process_scripts.py): the line-by-line *)
(* block assembler (lines 41-152) followed by the ACTION consolidation pass *)
(* (lines 154-195).  A text is a sequence of one-character strings, so the  *)
(* string operations of the code (strip, isupper, len, split, the regular   *)
(* expressions, substring tests, join) are computed character by character. *)
(***************************************************************************)
EXTENDS Naturals, Sequences, FiniteSets

VARIABLES
    lines,              \* the input lines consumed so far (full_text.split('\n'))
    processed_data,     \* the assembler's record list
    current_scene,
    current_character,
    dialogue_buffer,
    in_dialogue_mode,
    consolidated_data,  \* the consolidated record list (the returned value)
    pc,                 \* "loop", "consolidate", "done", "again"
    lexicon             \* the lines the input is drawn from

vars == <<lines, processed_data, current_scene, current_character,
          dialogue_buffer, in_dialogue_mode, consolidated_data, pc, lexicon>>

\* ---------------------------------------------------------------- bounds
MaxLines == 4
MaxRecs == 4

\* ------------------------------------------------------- program constants
HeadingMinLen == 5
HeadingLongLen == 20
CueMaxLen == 30
CueMaxTokens == 4
ActionMarginLen == 50

\* Python's None.  A text is a sequence of one-character strings, so the
\* one-element sequence below is no text.
None == <<"None">>

\* ------------------------------------------------------------ characters
UpperLetters ==
    <<"A","B","C","D","E","F","G","H","I","J","K","L","M",
      "N","O","P","Q","R","S","T","U","V","W","X","Y","Z">>
LowerLetters ==
    <<"a","b","c","d","e","f","g","h","i","j","k","l","m",
      "n","o","p","q","r","s","t","u","v","w","x","y","z">>
Digits == {"0","1","2","3","4","5","6","7","8","9"}
Whitespace == {" ", "\t"}

IsUpperChar(c) == \E k \in 1..26 : UpperLetters[k] = c
IsLowerChar(c) == \E k \in 1..26 : LowerLetters[k] = c
ToLowerChar(c) ==
    IF IsUpperChar(c)
    THEN LowerLetters[CHOOSE k \in 1..26 : UpperLetters[k] = c]
    ELSE c

\* ---------------------------------------------------------- str methods
\* str.strip(): leading and trailing whitespace removed.
Strip(s) ==
    IF \A k \in 1..Len(s) : s[k] \in Whitespace
    THEN <<>>
    ELSE LET first == CHOOSE a \in 1..Len(s) :
                        /\ s[a] \notin Whitespace
                        /\ \A k \in 1..(a-1) : s[k] \in Whitespace
             last == CHOOSE b \in 1..Len(s) :
                        /\ s[b] \notin Whitespace
                        /\ \A k \in (b+1)..Len(s) : s[k] \in Whitespace
         IN SubSeq(s, first, last)

\* str.isupper(): at least one cased character and no lower-case one.
IsUpper(s) ==
    /\ \E k \in 1..Len(s) : IsUpperChar(s[k])
    /\ \A k \in 1..Len(s) : ~IsLowerChar(s[k])

\* str.lower()
Lower(s) == [k \in 1..Len(s) |-> ToLowerChar(s[k])]

\* s.startswith(p)
StartsWith(s, p) == Len(p) <= Len(s) /\ SubSeq(s, 1, Len(p)) = p

\* p in s
Contains(s, p) ==
    \E a \in 1..(Len(s) + 1) :
        a + Len(p) - 1 <= Len(s) /\ SubSeq(s, a, a + Len(p) - 1) = p

\* len(s.split()): the number of maximal runs of non-whitespace characters.
TokenCount(s) ==
    Cardinality({k \in 1..Len(s) :
                    /\ s[k] \notin Whitespace
                    /\ (k = 1 \/ s[k-1] \in Whitespace)})

\* ' '.join(parts)
RECURSIVE Join(_)
Join(parts) ==
    IF parts = <<>> THEN <<>>
    ELSE IF Len(parts) = 1 THEN parts[1]
    ELSE parts[1] \o <<" ">> \o Join(Tail(parts))

\* ------------------------------------------------- the cue annotation regex
\* r"\s*\([Cc][Oo][Nn][Tt]['' U+2019]?[Dd]\)"; "U+2019" stands for the one
\* character RIGHT SINGLE QUOTATION MARK.
Apostrophes == {"'", "U+2019"}

CharAt(s, k) == IF k \in 1..Len(s) THEN s[k] ELSE "EOS"

\* The number of whitespace characters of s from position a on.
RECURSIVE WhitespaceRun(_, _)
WhitespaceRun(s, a) ==
    IF a <= Len(s) /\ s[a] \in Whitespace THEN 1 + WhitespaceRun(s, a + 1) ELSE 0

\* The length of the regex's match starting at position a, 0 when there is none.
\* \s* is greedy and what follows it is no whitespace, so backtracking into the
\* whitespace run never helps.
AnnotationMatchLen(s, a) ==
    LET ws == WhitespaceRun(s, a)
        p == a + ws
        head == /\ CharAt(s, p) = "("
                /\ CharAt(s, p + 1) \in {"C", "c"}
                /\ CharAt(s, p + 2) \in {"O", "o"}
                /\ CharAt(s, p + 3) \in {"N", "n"}
                /\ CharAt(s, p + 4) \in {"T", "t"}
    IN  IF head /\ CharAt(s, p + 5) \in Apostrophes
               /\ CharAt(s, p + 6) \in {"D", "d"} /\ CharAt(s, p + 7) = ")"
        THEN ws + 8
        ELSE IF head /\ CharAt(s, p + 5) \in {"D", "d"} /\ CharAt(s, p + 6) = ")"
        THEN ws + 7
        ELSE 0

\* re.sub(pattern, '', s) from position a on: every leftmost match removed.
RECURSIVE SubAnnotation(_, _)
SubAnnotation(s, a) ==
    IF a > Len(s) THEN <<>>
    ELSE IF AnnotationMatchLen(s, a) > 0
         THEN SubAnnotation(s, a + AnnotationMatchLen(s, a))
         ELSE <<s[a]>> \o SubAnnotation(s, a + 1)

\* CleanChar without the re.sub of line 89.
CleanCharNoSub(stripped) == Strip(stripped)

\* clean_char (lines 89-90)
CleanChar(stripped) == Strip(SubAnnotation(stripped, 1))

\* ------------------------------------------------------- line classification
\* line 58: the scene heading candidate test
HeadingCandidate(stripped) == IsUpper(stripped) /\ Len(stripped) > HeadingMinLen

\* line 71: re.match(r'^\d+', stripped)
StartsWithDigit(stripped) == Len(stripped) > 0 /\ stripped[1] \in Digits

HeadingMarkers ==
    { <<"I","N","T",".">>, <<"E","X","T",".">>, <<"I","N","T","/","E","X","T">> }

\* IsHeading without the length rule of line 79.
IsHeadingNoLong(stripped) ==
    /\ HeadingCandidate(stripped)
    /\ \/ StartsWithDigit(stripped)
       \/ \E m \in HeadingMarkers : Contains(stripped, m)

\* lines 58, 71, 79: the line is emitted as a SCENE record
IsHeading(stripped) ==
    /\ HeadingCandidate(stripped)
    /\ \/ StartsWithDigit(stripped)
       \/ \E m \in HeadingMarkers : Contains(stripped, m)
       \/ Len(stripped) > HeadingLongLen

\* CueExclusions without 'THE END'.
CueExclusionsNoTheEnd ==
    { <<"I","N","T",".">>, <<"E","X","T",".">>, <<"F","A","D","E">>,
      <<"C","U","T"," ","T","O">>, <<"D","I","S","S","O","L","V","E">> }

CueExclusions ==
    { <<"I","N","T",".">>, <<"E","X","T",".">>, <<"F","A","D","E">>,
      <<"C","U","T"," ","T","O">>, <<"D","I","S","S","O","L","V","E">>,
      <<"T","H","E"," ","E","N","D">> }

\* lines 92, 94: clean_char is accepted as a character cue
IsCueName(clean_char) ==
    /\ IsUpper(clean_char)
    /\ Len(clean_char) <= CueMaxLen
    /\ TokenCount(clean_char) <= CueMaxTokens
    /\ ~ \E x \in CueExclusions : Contains(clean_char, x)

ActionWords ==
    { <<"t","h","e"," ">>, <<"a"," ">>, <<"a","n"," ">>, <<"h","e"," ">>,
      <<"s","h","e"," ">>, <<"t","h","e","y"," ">>, <<"i","t"," ">>,
      <<"a","s"," ">>, <<"s","u","d","d","e","n","l","y"," ">> }

\* LooksLikeAction without the margin test of line 118.
LooksLikeActionWordsOnly(line, stripped) ==
    \E w \in ActionWords : StartsWith(Lower(stripped), w)

\* lines 118-119: the line looks like action, not dialogue
LooksLikeAction(line, stripped) ==
    \/ Len(line) > 0 /\ line[1] \notin Whitespace /\ Len(line) > ActionMarginLen
    \/ \E w \in ActionWords : StartsWith(Lower(stripped), w)

\* ---------------------------------------------------------- sample lines
\* ''
LineBlank == <<>>
\* 'INT. HANGAR'
LineHangar ==
    <<"I","N","T","."," ","H","A","N","G","A","R">>
\* '12 HANGAR'
LineNumbered ==
    <<"1","2"," ","H","A","N","G","A","R">>
\* 'LUKE'
LineLuke ==
    <<"L","U","K","E">>
\* "LUKE (CONT'D)"
LineLukeContd ==
    <<"L","U","K","E"," ","(","C","O","N","T","'","D",")">>
\* '  about this.'
LineIndented ==
    <<" "," ","a","b","o","u","t"," ","t","h","i","s",".">>
\* 'The ship shudders.'
LineTheShip ==
    <<"T","h","e"," ","s","h","i","p"," ","s","h","u","d","d","e","r","s",".">>
\* 'Luke ducks.'
LineDucks ==
    <<"L","u","k","e"," ","d","u","c","k","s",".">>
\* 'FADE OUT'
LineFadeOut ==
    <<"F","A","D","E"," ","O","U","T">>
\* 'THE END'
LineTheEnd ==
    <<"T","H","E"," ","E","N","D">>
\* 'Luke runs across the hangar toward the waiting ship.' (52 characters)
LineLongMargin ==
    <<"L","u","k","e"," ","r","u","n","s"," ","a","c","r","o","s","s"," ",
      "t","h","e"," ","h","a","n","g","a","r"," ","t","o","w","a","r","d"," ",
      "t","h","e"," ","w","a","i","t","i","n","g"," ","s","h","i","p",".">>
\* 'THE FALCON ROARS AWAY' (21 characters)
LineLongCaps ==
    <<"T","H","E"," ","F","A","L","C","O","N"," ","R","O","A","R","S"," ",
      "A","W","A","Y">>

\* The lines an input is drawn from.
Lexicon ==
    { LineBlank, LineHangar, LineNumbered, LineLuke, LineLukeContd,
      LineIndented, LineTheShip, LineDucks, LineFadeOut, LineTheEnd,
      LineLongMargin, LineLongCaps }

\* 'OBI-WAN KENOBI' (14 characters)
LineKenobi ==
    <<"O","B","I","-","W","A","N"," ","K","E","N","O","B","I">>
\* '3PO'
LineThreepio == <<"3","P","O">>
\* " (CONT'D)" and " (cont'd)"
AnnotationUpper == <<" ","(","C","O","N","T","'","D",")">>
AnnotationLower == <<" ","(","c","o","n","t","'","d",")">>
\* 'EXT. DESERT'
LineDesert ==
    <<"E","X","T","."," ","D","E","S","E","R","T">>
\* 'INT/EXT SHIP'
LineIntExt ==
    <<"I","N","T","/","E","X","T"," ","S","H","I","P">>

\* The names that are cues on a line of their own, and the annotations.
CueNames == {LineLuke, LineKenobi, LineThreepio}
Annotations == {AnnotationUpper, AnnotationLower}

\* The lines of an input of cues with and without annotation.
CueLexicon ==
    { LineBlank, LineHangar, LineLuke, LineKenobi, LineIndented, LineTheShip,
      LineLuke \o AnnotationUpper, LineKenobi \o AnnotationUpper,
      LineKenobi \o AnnotationLower, LineThreepio \o AnnotationUpper }

\* The lines of an input of headings of every kind.
HeadingLexicon ==
    { LineBlank, LineHangar, LineNumbered, LineDesert, LineIntExt, LineLongCaps,
      LineLuke, LineIndented, LineTheShip }

\* The lines of an input of cues and their dialogue.
DialogueLexicon ==
    { LineBlank, LineHangar, LineLuke, LineIndented, LineTheShip, LineFadeOut }

AllLines ==
    Lexicon \cup CueLexicon \cup HeadingLexicon \cup DialogueLexicon \cup CueNames
    \cup {n \o a : n \in CueNames, a \in Annotations}

\* ------------------------------------------------------------- records
SceneRec(text) == [type |-> "SCENE", text |-> text]
Rec(type, text, scene) == [type |-> type, text |-> text, scene |-> scene]

\* Python truthiness of current_character (None and '' are false).
Truthy(x) == x # None /\ x # <<>>

\* ------------------------------------------------------ the block assembler
\* The assembler's fields, as one record st.
Cur ==
    [processed_data |-> processed_data, current_scene |-> current_scene,
     current_character |-> current_character,
     dialogue_buffer |-> dialogue_buffer, in_dialogue_mode |-> in_dialogue_mode]

\* The DIALOGUE record built from the buffer (lines 47-51 and its four copies).
DialogueRec(st) ==
    Rec("DIALOGUE", Join(st.dialogue_buffer), st.current_scene)

\* FlushAndReset without the test of the buffer: every flush in dialogue mode
\* emits a record.
FlushAndResetNoBufferTest(st) ==
    IF st.in_dialogue_mode
    THEN [st EXCEPT !.processed_data = Append(@, DialogueRec(st)),
                    !.dialogue_buffer = <<>>,
                    !.in_dialogue_mode = FALSE,
                    !.current_character = None]
    ELSE st

\* FlushAndReset without the assignment of lines 52 and 66: the flushed lines
\* stay in the buffer.
FlushAndResetKeepBuffer(st) ==
    IF st.in_dialogue_mode /\ st.dialogue_buffer # <<>>
    THEN [st EXCEPT !.processed_data = Append(@, DialogueRec(st)),
                    !.in_dialogue_mode = FALSE,
                    !.current_character = None]
    ELSE st

\* lines 45-54, 60-68: flush the buffer and leave dialogue mode, when in
\* dialogue mode with a non-empty buffer; otherwise nothing changes.
FlushAndReset(st) ==
    IF st.in_dialogue_mode /\ st.dialogue_buffer # <<>>
    THEN [st EXCEPT !.processed_data = Append(@, DialogueRec(st)),
                    !.dialogue_buffer = <<>>,
                    !.in_dialogue_mode = FALSE,
                    !.current_character = None]
    ELSE st

\* lines 44-55: a blank line
BlankLine(st) == FlushAndReset(st)

\* lines 58-68: the flush every heading candidate performs, heading or not;
\* c is the line's entry of Classify
CandidateFlush(st, c) ==
    IF c.candidate THEN FlushAndReset(st) ELSE st

\* EmitScene without the assignment to current_scene.
EmitSceneKeepScene(st, stripped) ==
    [st EXCEPT !.processed_data = Append(@, SceneRec(stripped))]

\* EmitScene without the SCENE record.
EmitSceneNoRecord(st, stripped) ==
    [st EXCEPT !.current_scene = stripped]

\* lines 70-85: the SCENE record and the new current scene
EmitScene(st, stripped) ==
    [st EXCEPT !.current_scene = stripped,
               !.processed_data = Append(@, SceneRec(stripped))]

\* AcceptCue with the CHARACTER record appended before the pending dialogue.
AcceptCueFlushAfter(st, clean_char) ==
    LET flush == st.in_dialogue_mode /\ st.dialogue_buffer # <<>>
        data == Append(st.processed_data,
                       Rec("CHARACTER", clean_char, st.current_scene))
    IN  [st EXCEPT !.processed_data =
                        IF flush THEN Append(data, DialogueRec(st)) ELSE data,
                   !.dialogue_buffer = IF flush THEN <<>> ELSE @,
                   !.current_character = clean_char,
                   !.in_dialogue_mode = TRUE]

\* AcceptCue without the flush of the pending dialogue (lines 96-102).
AcceptCueNoFlush(st, clean_char) ==
    [st EXCEPT !.processed_data =
                    Append(@, Rec("CHARACTER", clean_char, st.current_scene)),
               !.current_character = clean_char,
               !.in_dialogue_mode = TRUE]

\* AcceptCue without the assignment of line 102: the flushed lines stay in
\* the buffer.
AcceptCueKeepBuffer(st, clean_char) ==
    LET flush == st.in_dialogue_mode /\ st.dialogue_buffer # <<>>
        data == IF flush THEN Append(st.processed_data, DialogueRec(st))
                ELSE st.processed_data
    IN  [st EXCEPT !.processed_data =
                        Append(data, Rec("CHARACTER", clean_char, st.current_scene)),
                   !.current_character = clean_char,
                   !.in_dialogue_mode = TRUE]

\* lines 95-110: a character cue
AcceptCue(st, clean_char) ==
    LET flush == st.in_dialogue_mode /\ st.dialogue_buffer # <<>>
        data == IF flush THEN Append(st.processed_data, DialogueRec(st))
                ELSE st.processed_data
    IN  [st EXCEPT !.processed_data =
                        Append(data, Rec("CHARACTER", clean_char, st.current_scene)),
                   !.dialogue_buffer = IF flush THEN <<>> ELSE @,
                   !.current_character = clean_char,
                   !.in_dialogue_mode = TRUE]

\* ActionReclass without the assignment of line 129.
ActionReclassKeepCharacter(st, stripped) ==
    LET data == IF st.dialogue_buffer # <<>>
                THEN Append(st.processed_data, DialogueRec(st))
                ELSE st.processed_data
    IN  [st EXCEPT !.processed_data =
                        Append(data, Rec("ACTION", stripped, st.current_scene)),
                   !.dialogue_buffer = <<>>,
                   !.in_dialogue_mode = FALSE]

\* lines 120-134: an action-like line ends the dialogue
ActionReclass(st, stripped) ==
    LET data == IF st.dialogue_buffer # <<>>
                THEN Append(st.processed_data, DialogueRec(st))
                ELSE st.processed_data
    IN  [st EXCEPT !.processed_data =
                        Append(data, Rec("ACTION", stripped, st.current_scene)),
                   !.dialogue_buffer = <<>>,
                   !.in_dialogue_mode = FALSE,
                   !.current_character = None]

\* lines 135-137: a dialogue line
BufferDialogue(st, stripped) ==
    [st EXCEPT !.dialogue_buffer = Append(@, stripped)]

\* lines 138-144: action/description outside dialogue
IdleAction(st, stripped) ==
    [st EXCEPT !.processed_data =
                    Append(@, Rec("ACTION", stripped, st.current_scene))]

\* FinalFlush left out.
FinalFlushNone(st) == st

\* lines 146-152: the flush after the last line
FinalFlush(st) ==
    IF st.in_dialogue_mode /\ st.dialogue_buffer # <<>>
    THEN [st EXCEPT !.processed_data = Append(@, DialogueRec(st))]
    ELSE st

\* line 114: the test that separates dialogue handling from plain action
InDialogue(st) == st.in_dialogue_mode /\ Truthy(st.current_character)

\* ------------------------------------------------- the consolidation pass
\* The loop's state: consolidated_data, action_buffer, current_action_scene.
ConsInit ==
    [consolidated_data |-> <<>>, action_buffer |-> <<>>,
     current_action_scene |-> None]

\* lines 167-171, 178-182, 189-193: the merged ACTION record
MergedRec(c) == Rec("ACTION", Join(c.action_buffer), c.current_action_scene)

\* ConsItem without the comparison of scenes: every ACTION record joins the run.
ConsItemMergeAcross(c, item) ==
    IF item.type = "ACTION"
    THEN [c EXCEPT !.action_buffer = Append(@, item.text),
                   !.current_action_scene =
                        IF c.action_buffer = <<>> THEN item.scene ELSE @]
    ELSE IF c.action_buffer # <<>>
         THEN [c EXCEPT !.consolidated_data = Append(Append(@, MergedRec(c)), item),
                        !.action_buffer = <<>>,
                        !.current_action_scene = None]
         ELSE [c EXCEPT !.consolidated_data = Append(@, item)]

\* ConsItem without the assignment to current_action_scene when a run starts.
ConsItemStaleScene(c, item) ==
    IF item.type = "ACTION"
    THEN IF c.current_action_scene = item.scene
         THEN [c EXCEPT !.action_buffer = Append(@, item.text)]
         ELSE [c EXCEPT !.consolidated_data =
                            IF c.action_buffer # <<>>
                            THEN Append(@, MergedRec(c)) ELSE @,
                        !.action_buffer = <<item.text>>]
    ELSE IF c.action_buffer # <<>>
         THEN [c EXCEPT !.consolidated_data = Append(Append(@, MergedRec(c)), item),
                        !.action_buffer = <<>>,
                        !.current_action_scene = None]
         ELSE [c EXCEPT !.consolidated_data = Append(@, item)]

\* ConsItem with the append of the non-ACTION item inside the flush's branch.
ConsItemAppendInsideFlush(c, item) ==
    IF item.type = "ACTION"
    THEN IF c.current_action_scene = item.scene
         THEN [c EXCEPT !.action_buffer = Append(@, item.text)]
         ELSE [c EXCEPT !.consolidated_data =
                            IF c.action_buffer # <<>>
                            THEN Append(@, MergedRec(c)) ELSE @,
                        !.action_buffer = <<item.text>>,
                        !.current_action_scene = item.scene]
    ELSE IF c.action_buffer # <<>>
         THEN [c EXCEPT !.consolidated_data = Append(Append(@, MergedRec(c)), item),
                        !.action_buffer = <<>>,
                        !.current_action_scene = None]
         ELSE c

\* lines 160-185: one iteration of the loop
ConsItem(c, item) ==
    IF item.type = "ACTION"
    THEN IF c.current_action_scene = item.scene
         THEN [c EXCEPT !.action_buffer = Append(@, item.text)]
         ELSE [c EXCEPT !.consolidated_data =
                            IF c.action_buffer # <<>>
                            THEN Append(@, MergedRec(c)) ELSE @,
                        !.action_buffer = <<item.text>>,
                        !.current_action_scene = item.scene]
    ELSE IF c.action_buffer # <<>>
         THEN [c EXCEPT !.consolidated_data = Append(Append(@, MergedRec(c)), item),
                        !.action_buffer = <<>>,
                        !.current_action_scene = None]
         ELSE [c EXCEPT !.consolidated_data = Append(@, item)]

\* lines 159-185: the loop over the first n records
RECURSIVE ConsLoop(_, _)
ConsLoop(data, n) ==
    IF n = 0 THEN ConsInit ELSE ConsItem(ConsLoop(data, n - 1), data[n])

\* lines 187-193: the flush of the trailing run
ConsFlush(c) ==
    IF c.action_buffer # <<>>
    THEN Append(c.consolidated_data, MergedRec(c))
    ELSE c.consolidated_data

\* lines 154-195: the whole pass
Consolidate(data) == ConsFlush(ConsLoop(data, Len(data)))

\* ------------------------------------------------------------ the actions
Init ==
    /\ lines = <<>>
    /\ processed_data = <<>>
    /\ current_scene = None
    /\ current_character = None
    /\ dialogue_buffer = <<>>
    /\ in_dialogue_mode = FALSE
    /\ consolidated_data = <<>>
    /\ pc = "loop"
    /\ lexicon = Lexicon

\* The assembler's fields become those of st.
Become(st) ==
    /\ processed_data' = st.processed_data
    /\ current_scene' = st.current_scene
    /\ current_character' = st.current_character
    /\ dialogue_buffer' = st.dialogue_buffer
    /\ in_dialogue_mode' = st.in_dialogue_mode

\* One more line is read (line 41).
Read(line) ==
    /\ pc = "loop"
    /\ Len(lines) < MaxLines
    /\ lines' = Append(lines, line)
    /\ UNCHANGED <<consolidated_data, pc, lexicon>>

\* What lines 42-119 compute from the line alone, for every sample line: the
\* tests do not read the assembler's fields.
Classify ==
    [line \in AllLines |->
        LET stripped == Strip(line) IN
        [stripped |-> stripped,
         blank |-> stripped = <<>>,
         candidate |-> HeadingCandidate(stripped),
         heading |-> IsHeading(stripped),
         clean_char |-> CleanChar(stripped),
         cue |-> IsCueName(CleanChar(stripped)),
         action_like |-> LooksLikeAction(line, stripped)]]

\* lines 44-55
OnBlank ==
    \E line \in lexicon :
        /\ Classify[line].blank
        /\ Read(line)
        /\ Become(BlankLine(Cur))

\* lines 58-85
OnHeading ==
    \E line \in lexicon :
        LET c == Classify[line] IN
        /\ ~c.blank
        /\ c.heading
        /\ Read(line)
        /\ Become(EmitScene(CandidateFlush(Cur, c), c.stripped))

\* lines 58-68, 87-111
OnCue ==
    \E line \in lexicon :
        LET c == Classify[line] IN
        /\ ~c.blank
        /\ ~c.heading
        /\ c.cue
        /\ Read(line)
        /\ Become(AcceptCue(CandidateFlush(Cur, c), c.clean_char))

\* lines 58-68, 113-134
OnActionLike ==
    \E line \in lexicon :
        LET c == Classify[line]
            st == CandidateFlush(Cur, c) IN
        /\ ~c.blank
        /\ ~c.heading
        /\ ~c.cue
        /\ InDialogue(st)
        /\ c.action_like
        /\ Read(line)
        /\ Become(ActionReclass(st, c.stripped))

\* lines 58-68, 113-119, 135-137
OnDialogue ==
    \E line \in lexicon :
        LET c == Classify[line]
            st == CandidateFlush(Cur, c) IN
        /\ ~c.blank
        /\ ~c.heading
        /\ ~c.cue
        /\ InDialogue(st)
        /\ ~c.action_like
        /\ Read(line)
        /\ Become(BufferDialogue(st, c.stripped))

\* lines 58-68, 113-114, 138-144
OnIdleAction ==
    \E line \in lexicon :
        LET c == Classify[line]
            st == CandidateFlush(Cur, c) IN
        /\ ~c.blank
        /\ ~c.heading
        /\ ~c.cue
        /\ ~InDialogue(st)
        /\ Read(line)
        /\ Become(IdleAction(st, c.stripped))

\* lines 146-152: the input ends
EndOfInput ==
    /\ pc = "loop"
    /\ Become(FinalFlush(Cur))
    /\ pc' = "consolidate"
    /\ UNCHANGED <<lines, consolidated_data, lexicon>>

\* lines 154-195: the consolidation pass over the assembler's records
ConsolidatePass ==
    /\ pc = "consolidate"
    /\ consolidated_data' = Consolidate(processed_data)
    /\ pc' = "done"
    /\ UNCHANGED <<lines, processed_data, current_scene, current_character,
                   dialogue_buffer, in_dialogue_mode, lexicon>>

Next ==
    \/ OnBlank
    \/ OnHeading
    \/ OnCue
    \/ OnActionLike
    \/ OnDialogue
    \/ OnIdleAction
    \/ EndOfInput
    \/ ConsolidatePass

Spec == Init /\ [][Next]_vars

\* ------------------------------------- the consolidation pass on its own
\* 'Debris falls.'
TextDebris ==
    <<"D","e","b","r","i","s"," ","f","a","l","l","s",".">>

SampleScenes == {None, LineHangar, LineNumbered}

\* The records a sequence handed to the consolidation pass is drawn from.
SampleRecs ==
    {Rec("ACTION", t, sc) : t \in {LineDucks, TextDebris}, sc \in SampleScenes}
    \cup {SceneRec(LineHangar),
          Rec("CHARACTER", LineLuke, LineHangar),
          Rec("DIALOGUE", Strip(LineIndented), None)}

InitCons ==
    /\ lines = <<>>
    /\ processed_data \in UNION {[1..n -> SampleRecs] : n \in 0..MaxRecs}
    /\ current_scene = None
    /\ current_character = None
    /\ dialogue_buffer = <<>>
    /\ in_dialogue_mode = FALSE
    /\ consolidated_data = <<>>
    /\ pc = "consolidate"
    /\ lexicon = Lexicon

\* lines 154-195 applied to their own result: line 195 makes the result the
\* record list, and the pass runs over it once more.
ConsolidateAgain ==
    /\ pc = "done"
    /\ processed_data' = consolidated_data
    /\ consolidated_data' = Consolidate(consolidated_data)
    /\ pc' = "again"
    /\ UNCHANGED <<lines, current_scene, current_character, dialogue_buffer,
                   in_dialogue_mode, lexicon>>

NextCons ==
    \/ ConsolidatePass
    \/ ConsolidateAgain

SpecCons == InitCons /\ [][NextCons]_vars

\* ------------------------------------------- inputs of other sample lines
\* The assembler and the consolidation pass on inputs of cue lines.
InitCue ==
    /\ lines = <<>>
    /\ processed_data = <<>>
    /\ current_scene = None
    /\ current_character = None
    /\ dialogue_buffer = <<>>
    /\ in_dialogue_mode = FALSE
    /\ consolidated_data = <<>>
    /\ pc = "loop"
    /\ lexicon = CueLexicon

SpecCue == InitCue /\ [][Next]_vars

\* The assembler and the consolidation pass on inputs of heading lines.
InitHeading ==
    /\ lines = <<>>
    /\ processed_data = <<>>
    /\ current_scene = None
    /\ current_character = None
    /\ dialogue_buffer = <<>>
    /\ in_dialogue_mode = FALSE
    /\ consolidated_data = <<>>
    /\ pc = "loop"
    /\ lexicon = HeadingLexicon

SpecHeading == InitHeading /\ [][Next]_vars

\* The assembler and the consolidation pass on inputs of cues and dialogue.
InitDialogue ==
    /\ lines = <<>>
    /\ processed_data = <<>>
    /\ current_scene = None
    /\ current_character = None
    /\ dialogue_buffer = <<>>
    /\ in_dialogue_mode = FALSE
    /\ consolidated_data = <<>>
    /\ pc = "loop"
    /\ lexicon = DialogueLexicon

\* The loop of line 41 runs to the end of the input and the function runs to
\* its return: no step that is possible is put off for ever.
SpecDialogue == InitDialogue /\ [][Next]_vars /\ WF_vars(Next)

\* ============================================================ properties
Last(seq) == seq[Len(seq)]
Texts(data) == [k \in 1..Len(data) |-> data[k].text]
NonBlank(text) == \E k \in 1..Len(text) : text[k] \notin Whitespace

\* What an input line leaves in the output: the cue name for a line accepted
\* as a character cue, the trimmed line for any other line.
IsCueLine(line) == ~Classify[line].blank /\ ~Classify[line].heading /\ Classify[line].cue
Represented(line) ==
    IF IsCueLine(line) THEN Classify[line].clean_char ELSE Classify[line].stripped

\* The non-blank lines among the first n input lines, in input order, each as
\* it is represented in the output.
RECURSIVE RepresentedUpTo(_)
RepresentedUpTo(n) ==
    IF n = 0 THEN <<>>
    ELSE IF Classify[lines[n]].blank THEN RepresentedUpTo(n - 1)
    ELSE Append(RepresentedUpTo(n - 1), Represented(lines[n]))

\* C1 as stated: when the run is over, the trimmed content of every non-blank
\* input line is contained in the text of some record of the final output.
C1_NoTextLost ==
    pc = "done" =>
        \A k \in 1..Len(lines) :
            \/ Classify[lines[k]].blank
            \/ \E r \in 1..Len(consolidated_data) :
                   Contains(consolidated_data[r].text, Classify[lines[k]].stripped)

\* C1 as amended: when the run is over, every non-blank input line is
\* contained in the text of some record of the final output: with its trimmed
\* content, or, when the line was accepted as a character cue, with its
\* trimmed content less the continuation annotations the cue rule removes.
C1_NoTextLostButAnnotation ==
    pc = "done" =>
        \A k \in 1..Len(lines) :
            \/ Classify[lines[k]].blank
            \/ \E r \in 1..Len(consolidated_data) :
                   Contains(consolidated_data[r].text, Represented(lines[k]))

\* An annotated cue, a dialogue line and an action line went through.
C1_Witness ==
    /\ pc = "done"
    /\ \E k \in 1..Len(lines) : lines[k] = LineLukeContd
    /\ \E r \in 1..Len(consolidated_data) : consolidated_data[r].type = "DIALOGUE"
    /\ \E r \in 1..Len(consolidated_data) : consolidated_data[r].type = "ACTION"

\* C2: in every state every DIALOGUE record, before and after consolidation,
\* has a text with a non-blank character, and every line waiting in the
\* dialogue buffer is a non-empty trimmed line.
C2_NoEmptyDialogue ==
    /\ \A k \in 1..Len(processed_data) :
           processed_data[k].type = "DIALOGUE" => NonBlank(processed_data[k].text)
    /\ \A k \in 1..Len(consolidated_data) :
           consolidated_data[k].type = "DIALOGUE" => NonBlank(consolidated_data[k].text)
    /\ \A k \in 1..Len(dialogue_buffer) :
           NonBlank(dialogue_buffer[k]) /\ Strip(dialogue_buffer[k]) = dialogue_buffer[k]

\* Two dialogues were flushed, the first by a flush in the loop and the second
\* at the end of the input.
C2_Witness ==
    /\ pc = "done"
    /\ Cardinality({k \in 1..Len(consolidated_data) :
                       consolidated_data[k].type = "DIALOGUE"}) = 2
    /\ Last(consolidated_data).type = "DIALOGUE"

\* The text of the last SCENE record before position k of data, None without one.
LastSceneBefore(data, k) ==
    LET before == {j \in 1..(k - 1) : data[j].type = "SCENE"} IN
    IF before = {} THEN None
    ELSE data[CHOOSE j \in before : \A i \in before : i <= j].text

SceneAttached(data) ==
    \A k \in 1..Len(data) :
        data[k].type # "SCENE" => data[k].scene = LastSceneBefore(data, k)

\* C3: in every state, before and after consolidation, the scene of every
\* CHARACTER, DIALOGUE and ACTION record is the text of the last SCENE record
\* before it, or None when no SCENE record precedes it.
C3_SceneAttached ==
    SceneAttached(processed_data) /\ SceneAttached(consolidated_data)

\* A dialogue spoken in one scene was flushed by the heading of the next scene.
C3_Witness ==
    /\ pc = "done"
    /\ \E k \in 2..Len(consolidated_data) :
           /\ consolidated_data[k].type = "SCENE"
           /\ consolidated_data[k - 1].type = "DIALOGUE"
           /\ consolidated_data[k - 1].scene # None
           /\ consolidated_data[k - 1].scene # consolidated_data[k].text

\* C4 as stated: every DIALOGUE record of the final output directly follows a
\* CHARACTER record.
C4_DialogueFollowsCue ==
    \A k \in 1..Len(consolidated_data) :
        consolidated_data[k].type = "DIALOGUE" =>
            k > 1 /\ consolidated_data[k - 1].type = "CHARACTER"

\* C5 as stated: right after a blank line the assembler is idle.
C5_BlankResets ==
    (pc = "loop" /\ lines # <<>> /\ Classify[Last(lines)].blank) =>
        /\ ~in_dialogue_mode
        /\ current_character = None
        /\ dialogue_buffer = <<>>

\* C6 as stated: right after a line emitted as a SCENE record the assembler
\* is idle.
C6_HeadingClearsSpeaker ==
    (pc = "loop" /\ lines # <<>> /\ ~Classify[Last(lines)].blank
                 /\ Classify[Last(lines)].heading) =>
        /\ ~in_dialogue_mode
        /\ current_character = None
        /\ dialogue_buffer = <<>>

\* The last record of the maximal run of ACTION records of one scene that
\* starts at position k of data.
RunEnd(data, k) ==
    CHOOSE j \in k..Len(data) :
        /\ \A i \in k..j : data[i].type = "ACTION" /\ data[i].scene = data[k].scene
        /\ j < Len(data) =>
               ~(data[j + 1].type = "ACTION" /\ data[j + 1].scene = data[k].scene)

\* data from position k on, each maximal run of ACTION records of one scene
\* replaced by the one record that joins its texts.
RECURSIVE RunsMerged(_, _)
RunsMerged(data, k) ==
    IF k > Len(data) THEN <<>>
    ELSE IF data[k].type # "ACTION" THEN <<data[k]>> \o RunsMerged(data, k + 1)
    ELSE LET j == RunEnd(data, k) IN
         <<Rec("ACTION", Join([i \in 1..(j - k + 1) |-> data[k + i - 1].text]),
               data[k].scene)>>
         \o RunsMerged(data, j + 1)

\* C7: the result of a consolidation pass is its input with each maximal run
\* of consecutive ACTION records of identical scene replaced by one ACTION
\* record of that scene whose text joins the run's texts in order.
C7_MergesMaximalRuns ==
    pc \in {"done", "again"} => consolidated_data = RunsMerged(processed_data, 1)

\* Two runs of different scenes met, one of them longer than one record.
C7_Witness ==
    /\ pc = "done"
    /\ Len(processed_data) = 4
    /\ Len(consolidated_data) = 3
    /\ \E k \in 1..2 :
           /\ consolidated_data[k].type = "ACTION"
           /\ consolidated_data[k + 1].type = "ACTION"
           /\ consolidated_data[k].scene # consolidated_data[k + 1].scene
           /\ Contains(consolidated_data[k].text, LineDucks \o <<" ">> \o TextDebris)

\* C8: the consolidation pass applied to its own result returns it unchanged.
C8_Idempotent ==
    pc = "again" => consolidated_data = processed_data

\* The pass ran again over adjacent ACTION records of different scenes, one of
\* them without a scene.
C8_Witness ==
    /\ pc = "again"
    /\ \E k \in 2..Len(processed_data) :
           /\ processed_data[k].type = "ACTION"
           /\ processed_data[k - 1].type = "ACTION"
           /\ processed_data[k].scene = None
           /\ processed_data[k - 1].scene # None

\* The records of data that are no ACTION records, in order.
RECURSIVE NonActions(_)
NonActions(data) ==
    IF data = <<>> THEN <<>>
    ELSE IF Head(data).type = "ACTION" THEN NonActions(Tail(data))
    ELSE <<Head(data)>> \o NonActions(Tail(data))

\* The joined texts of the ACTION records before the m-th non-ACTION record.
RECURSIVE ActionTextBefore(_, _)
ActionTextBefore(data, m) ==
    IF data = <<>> THEN <<>>
    ELSE IF Head(data).type = "ACTION"
         THEN LET rest == ActionTextBefore(Tail(data), m) IN
              IF rest = <<>> THEN Head(data).text
              ELSE Head(data).text \o <<" ">> \o rest
         ELSE IF m = 1 THEN <<>> ELSE ActionTextBefore(Tail(data), m - 1)

\* C9: the records that are no ACTION records are the same, in the same
\* order, before and after a consolidation pass, and the same action text
\* lies between each of them and the one before.
C9_NonActionsUntouched ==
    pc \in {"done", "again"} =>
        /\ NonActions(consolidated_data) = NonActions(processed_data)
        /\ \A m \in 1..(Len(NonActions(processed_data)) + 1) :
               ActionTextBefore(consolidated_data, m) = ActionTextBefore(processed_data, m)

\* Records of the three other types stood between and around ACTION runs.
C9_Witness ==
    /\ pc = "done"
    /\ Len(processed_data) = 4
    /\ Len(NonActions(processed_data)) = 2
    /\ processed_data[1].type = "ACTION"
    /\ processed_data[2].type # "ACTION"
    /\ processed_data[3].type = "ACTION"
    /\ processed_data[2] # processed_data[4]

\* C10: at every line boundary the texts of the records emitted so far,
\* followed by the lines waiting in the dialogue buffer, are the non-blank
\* lines read so far in input order; so are the texts of the final output.
C10_DocumentOrder ==
    /\ pc = "loop" =>
           Join(Texts(processed_data) \o dialogue_buffer)
               = Join(RepresentedUpTo(Len(lines)))
    /\ pc \in {"consolidate", "done"} =>
           Join(Texts(processed_data)) = Join(RepresentedUpTo(Len(lines)))
    /\ pc = "done" =>
           Join(Texts(consolidated_data)) = Join(RepresentedUpTo(Len(lines)))

\* A cue, a dialogue of two lines and an action line came out in input order.
C10_Witness ==
    /\ pc = "done"
    /\ Len(lines) = 4
    /\ Len(consolidated_data) = 3
    /\ consolidated_data[1].type = "CHARACTER"
    /\ consolidated_data[2].type = "DIALOGUE"
    /\ consolidated_data[2].text =
           Classify[lines[2]].stripped \o <<" ">> \o Classify[lines[3]].stripped
    /\ consolidated_data[3].type = "ACTION"
    /\ lines[2] # lines[3]

\* ------------------------------------------------ one line, step by step
\* The loop reads this line in the step.
LineRead(line) == pc = "loop" /\ lines' = Append(lines, line)

\* Some line is read in the step.
SomeLineRead == pc = "loop" /\ Len(lines') = Len(lines) + 1

\* The step appends exactly these records.
Emits(recs) == processed_data' = processed_data \o recs

\* The DIALOGUE record of the lines waiting in the buffer, if there are any.
PendingDialogue ==
    IF dialogue_buffer # <<>>
    THEN <<Rec("DIALOGUE", Join(dialogue_buffer), current_scene)>>
    ELSE <<>>

\* After the step the assembler is idle.
IdleAfter ==
    /\ ~in_dialogue_mode'
    /\ current_character' = None
    /\ dialogue_buffer' = <<>>

\* C11: in every state of the assembler the line 'THE END' appends an ACTION
\* record with that text, after the DIALOGUE record of a pending buffer and
\* nothing else: no CHARACTER record, and the line does not enter the buffer.
C11_TheEndIsAction ==
    [][LineRead(LineTheEnd) =>
          /\ Emits(PendingDialogue \o <<Rec("ACTION", LineTheEnd, current_scene)>>)
          /\ dialogue_buffer' = <<>>]_vars

\* 'THE END' arrived while dialogue was waiting in the buffer.
C11_Witness ==
    /\ pc = "loop"
    /\ Len(lines) >= 3
    /\ Last(lines) = LineTheEnd
    /\ Len(processed_data) >= 3
    /\ Last(processed_data).type = "ACTION"
    /\ Last(processed_data).text = LineTheEnd
    /\ processed_data[Len(processed_data) - 1].type = "DIALOGUE"
    /\ processed_data[Len(processed_data) - 2].type = "CHARACTER"

\* C12 as stated: in every state of the assembler, right after a line made of
\* a name that is a cue on a line of its own and a continuation annotation,
\* the last record is a CHARACTER record whose text is the name.
C12_AnnotatedCueIsCharacter ==
    \A n \in CueNames, a \in Annotations :
        (pc = "loop" /\ lines # <<>> /\ Last(lines) = n \o a /\ IsCueLine(n)) =>
            /\ processed_data # <<>>
            /\ Last(processed_data) = Rec("CHARACTER", n, current_scene)

\* C12 as amended: the same, unless the annotated line is a scene heading
\* (entirely upper-case, longer than 5 characters, and longer than 20
\* characters or beginning with a digit); then the last record is the SCENE
\* record of the whole annotated line.
C12_AnnotatedCueUnlessHeading ==
    \A n \in CueNames, a \in Annotations :
        (pc = "loop" /\ lines # <<>> /\ Last(lines) = n \o a /\ IsCueLine(n)) =>
            /\ processed_data # <<>>
            /\ Last(processed_data) =
                   IF /\ IsUpper(n \o a)
                      /\ Len(n \o a) > HeadingMinLen
                      /\ (Len(n \o a) > HeadingLongLen \/ StartsWithDigit(n \o a))
                   THEN SceneRec(n \o a)
                   ELSE Rec("CHARACTER", n, current_scene)

\* An annotated cue arrived while the dialogue of another speaker was waiting
\* in the buffer, in a scene.
C12_Witness ==
    /\ pc = "loop"
    /\ Len(lines) = 4
    /\ Last(lines) = LineLuke \o AnnotationUpper
    /\ Last(processed_data) = Rec("CHARACTER", LineLuke, LineHangar)
    /\ processed_data[Len(processed_data) - 1].type = "DIALOGUE"
    /\ lines[2] = LineKenobi \o AnnotationLower

\* The records the step appends.
NewRecs == SubSeq(processed_data', Len(processed_data) + 1, Len(processed_data'))

\* The text is one of the lines waiting in the dialogue buffer.
Buffered(text) == \E k \in 1..Len(dialogue_buffer) : dialogue_buffer[k] = text

\* The text is part of the text of a DIALOGUE record.
InDialogueRec(text) ==
    \E k \in 1..Len(processed_data) :
        processed_data[k].type = "DIALOGUE" /\ Contains(processed_data[k].text, text)

\* C13: a step of the loop that buffers a line is taken in dialogue mode under
\* a cue, appends the trimmed line to the buffer and emits nothing; every other
\* step that finds lines in the buffer (blank line, heading, cue, action, end
\* of input) emits first, and once, the DIALOGUE record that joins them with
\* single spaces in order, and empties the buffer; and every buffered line
\* comes to stand in a DIALOGUE record.
C13_DialogueBuffering ==
    /\ [][pc = "loop" =>
            IF Len(dialogue_buffer') > Len(dialogue_buffer)
            THEN /\ in_dialogue_mode
                 /\ Truthy(current_character)
                 /\ dialogue_buffer' =
                        Append(dialogue_buffer, Classify[Last(lines')].stripped)
                 /\ Emits(<<>>)
            ELSE dialogue_buffer # <<>> =>
                 /\ Len(NewRecs) >= 1
                 /\ NewRecs[1] = Rec("DIALOGUE", Join(dialogue_buffer), current_scene)
                 /\ \A k \in 2..Len(NewRecs) : NewRecs[k].type # "DIALOGUE"
                 /\ SubSeq(processed_data', 1, Len(processed_data)) = processed_data
                 /\ (pc' = "loop" => dialogue_buffer' = <<>>)]_vars
    /\ \A line \in {l \in DialogueLexicon : ~Classify[l].blank /\ ~Classify[l].cue} :
           Buffered(Classify[line].stripped) ~> InDialogueRec(Classify[line].stripped)

\* A dialogue of two lines was closed by the end of the input.
C13_Witness ==
    /\ pc = "consolidate"
    /\ Len(dialogue_buffer) = 2
    /\ dialogue_buffer[1] # dialogue_buffer[2]
    /\ Last(processed_data) = Rec("DIALOGUE", Join(dialogue_buffer), current_scene)
    /\ processed_data[Len(processed_data) - 1].type = "CHARACTER"

\* The trimmed line is entirely upper-case, longer than 5 characters, and
\* begins with a digit, contains 'INT.', 'EXT.' or 'INT/EXT', or is longer than
\* 20 characters.
HeadingByRule(text) ==
    /\ IsUpper(text)
    /\ Len(text) > HeadingMinLen
    /\ \/ text[1] \in Digits
       \/ Contains(text, <<"I","N","T",".">>)
       \/ Contains(text, <<"E","X","T",".">>)
       \/ Contains(text, <<"I","N","T","/","E","X","T">>)
       \/ Len(text) > HeadingLongLen

\* C14: in every state of the assembler a line whose trimmed text is a heading
\* by the rule appends, after the DIALOGUE record of a pending buffer, one
\* SCENE record with the whole trimmed text and nothing else, makes that text
\* the current scene and buffers nothing, also when the text passes the cue
\* rule.
C14_HeadingPrecedence ==
    [][(SomeLineRead /\ HeadingByRule(Classify[Last(lines')].stripped)) =>
          /\ Emits(PendingDialogue \o <<SceneRec(Classify[Last(lines')].stripped)>>)
          /\ current_scene' = Classify[Last(lines')].stripped
          /\ dialogue_buffer' = <<>>]_vars

\* A heading that passes the cue rule arrived while dialogue was waiting in
\* the buffer.
C14_Witness ==
    /\ pc = "loop"
    /\ Len(lines) >= 3
    /\ Last(lines) = LineIntExt
    /\ IsCueName(CleanChar(LineIntExt))
    /\ Len(processed_data) >= 2
    /\ Last(processed_data) = SceneRec(LineIntExt)
    /\ current_scene = LineIntExt
    /\ processed_data[Len(processed_data) - 1].type = "DIALOGUE"

\* C15: a step that accepts a line as a character cue appends the DIALOGUE
\* record of a pending buffer and then the CHARACTER record of the normalized
\* name, both with the current scene, and leaves the name as current
\* character, the dialogue flag set, the buffer empty and the scene as it was.
C15_CueTransition ==
    [][(SomeLineRead /\ IsCueLine(Last(lines'))) =>
          /\ Emits(PendingDialogue
                   \o <<Rec("CHARACTER", Classify[Last(lines')].clean_char,
                            current_scene)>>)
          /\ current_character' = Classify[Last(lines')].clean_char
          /\ in_dialogue_mode'
          /\ dialogue_buffer' = <<>>
          /\ current_scene' = current_scene]_vars

\* An annotated cue arrived in a scene while the dialogue of the speaker
\* before was waiting in the buffer.
C15_Witness ==
    /\ pc = "loop"
    /\ Len(lines) = 4
    /\ Last(lines) = LineLukeContd
    /\ Len(processed_data) = 4
    /\ processed_data[1].type = "SCENE"
    /\ processed_data[3] = Rec("DIALOGUE", Classify[lines[3]].stripped, processed_data[1].text)
    /\ processed_data[4] = Rec("CHARACTER", LineLuke, processed_data[1].text)
    /\ current_character = LineLuke
    /\ in_dialogue_mode
    /\ dialogue_buffer = <<>>

\* The line starts at the left margin with more than 50 characters, or its
\* trimmed text, lower-cased, begins with one of the listed words.
ActionByRule(line) ==
    \/ line[1] \notin Whitespace /\ Len(line) > ActionMarginLen
    \/ \E w \in ActionWords : StartsWith(Lower(Strip(line)), w)

\* The line is not blank, no heading and no cue.
PlainLine(line) ==
    ~Classify[line].blank /\ ~Classify[line].heading /\ ~Classify[line].cue

\* C16: a plain line read in dialogue mode under a cue that is action by the
\* rule appends the DIALOGUE record of a pending buffer and then the ACTION
\* record of the trimmed line with the current scene, and leaves the assembler
\* idle; a plain line read while idle appends that ACTION record alone.
C16_ActionReclassification ==
    [][(SomeLineRead /\ PlainLine(Last(lines'))) =>
          /\ (in_dialogue_mode /\ current_character # None
                  /\ ActionByRule(Last(lines'))) =>
                 /\ Emits(PendingDialogue
                          \o <<Rec("ACTION", Strip(Last(lines')), current_scene)>>)
                 /\ IdleAfter
          /\ ~in_dialogue_mode =>
                 /\ Emits(<<Rec("ACTION", Strip(Last(lines')), current_scene)>>)
                 /\ IdleAfter]_vars

\* A long line at the left margin arrived while dialogue was waiting in the
\* buffer.
C16_Witness ==
    /\ pc = "loop"
    /\ Len(lines) >= 3
    /\ Last(lines) = LineLongMargin
    /\ Len(processed_data) >= 3
    /\ Last(processed_data) = Rec("ACTION", LineLongMargin, current_scene)
    /\ processed_data[Len(processed_data) - 1].type = "DIALOGUE"
    /\ ~in_dialogue_mode
    /\ current_character = None

\* C17 as stated: an upper-case line longer than 5 characters that is neither
\* heading nor cue and is not action by the rule, read in dialogue mode under a
\* cue, is appended to the dialogue buffer and nothing is emitted, whether the
\* buffer was empty or not.
C17_FallThroughIsBuffered ==
    [][(/\ SomeLineRead
        /\ PlainLine(Last(lines'))
        /\ IsUpper(Strip(Last(lines')))
        /\ Len(Strip(Last(lines'))) > HeadingMinLen
        /\ in_dialogue_mode
        /\ current_character # None
        /\ ~ActionByRule(Last(lines'))) =>
          /\ dialogue_buffer' = Append(dialogue_buffer, Strip(Last(lines')))
          /\ Emits(<<>>)]_vars

\* C18: in every state the dialogue flag is set exactly when the current
\* character is not None.
C18_FlagIffCharacter ==
    in_dialogue_mode <=> current_character # None

\* An action-like line ended the dialogue of a speaker: flag and character
\* were set by the cue and cleared by the line.
C18_Witness ==
    /\ pc = "loop"
    /\ Len(processed_data) >= 2
    /\ Last(processed_data).type = "ACTION"
    /\ processed_data[Len(processed_data) - 1].type = "CHARACTER"
    /\ ~in_dialogue_mode
    /\ current_character = None

\* C19: in every state a non-empty dialogue buffer implies the dialogue flag,
\* and a step of the loop that appends an ACTION or a SCENE record leaves the
\* buffer empty and has flushed what was in it.
C19_BufferImpliesFlag ==
    /\ [](dialogue_buffer # <<>> => in_dialogue_mode)
    /\ [][(pc = "loop" /\ \E k \in 1..Len(NewRecs) :
                               NewRecs[k].type \in {"ACTION", "SCENE"}) =>
             /\ dialogue_buffer' = <<>>
             /\ Len(NewRecs) = Len(PendingDialogue) + 1
             /\ SubSeq(NewRecs, 1, Len(PendingDialogue)) = PendingDialogue]_vars

\* A heading found lines in the buffer, flushed them and left it empty.
C19_Witness ==
    /\ pc = "loop"
    /\ Len(processed_data) >= 3
    /\ Last(processed_data).type = "SCENE"
    /\ processed_data[Len(processed_data) - 1].type = "DIALOGUE"
    /\ dialogue_buffer = <<>>
    /\ ~in_dialogue_mode

\* No two neighbours in data are ACTION records of different scenes.
AdjacentActionsShareScene(data) ==
    \A k \in 2..Len(data) :
        (data[k - 1].type = "ACTION" /\ data[k].type = "ACTION") =>
            data[k - 1].scene = data[k].scene

\* C20: in every state neighbouring ACTION records of the assembler carry the
\* same scene and the current scene is the text of the last SCENE record (None
\* only while there is none); when the run is over, no iteration of the
\* consolidation loop has met an ACTION record of another scene with a
\* non-empty action buffer, and no two neighbours of the final output are
\* ACTION records.
C20_NoAdjacentActions ==
    /\ AdjacentActionsShareScene(processed_data)
    /\ pc = "loop" =>
           current_scene = LastSceneBefore(processed_data, Len(processed_data) + 1)
    /\ pc = "done" =>
           /\ \A n \in 1..Len(processed_data) :
                  ~ /\ processed_data[n].type = "ACTION"
                    /\ ConsLoop(processed_data, n - 1).action_buffer # <<>>
                    /\ ConsLoop(processed_data, n - 1).current_action_scene
                           # processed_data[n].scene
           /\ \A k \in 2..Len(consolidated_data) :
                  ~(consolidated_data[k - 1].type = "ACTION"
                        /\ consolidated_data[k].type = "ACTION")

\* Action lines stood on both sides of a heading: a run without a scene was
\* merged, and the ACTION record after the SCENE record carries the scene.
C20_Witness ==
    /\ pc = "done"
    /\ Len(lines) = 4
    /\ Len(consolidated_data) = 3
    /\ consolidated_data[1].type = "ACTION"
    /\ consolidated_data[1].scene = None
    /\ consolidated_data[1].text = Strip(lines[1]) \o <<" ">> \o Strip(lines[2])
    /\ consolidated_data[2].type = "SCENE"
    /\ consolidated_data[3].type = "ACTION"
    /\ consolidated_data[3].scene = consolidated_data[2].text

====
